---- MODULE Spec2Model ----
(***************************************************************************)
(* carbonmap: CarbonMap<K, V> = parking_lot::RwLock<HashMap<K, V>> with an *)
(* entry API (src/src/lib.rs).  Threads call insert / get / remove / entry *)
(* on one shared container.  A call, its blocking lock acquisition, the     *)
(* body it runs under the lock and the drop of its guard are steps of      *)
(* their own wherever another thread can run in between, so that the       *)
(* interleavings of the threads are the interleavings of the program.      *)
(* A thread at "..._wait" is blocked in RwLock::read() / write().           *)
(***************************************************************************)
EXTENDS Integers, Sequences, FiniteSets, TLC

(* ------------------------------ bounds --------------------------------- *)
\* number of threads sharing the container
NThreads == 2
\* number of distinct keys
NKeys == 2
\* insert values and or_insert defaults are drawn from 1..MaxIn
MaxIn == 2
\* total number of calls into the container made by all threads (Spec)
MaxOps == 2
\* total number of insert / get / remove calls made by all threads (SpecMap)
MaxMapOps == 3
\* and_modify calls chained on one Entry (Spec)
MaxMods == 1
\* chains run by each thread in the concurrent_entry_updates workload
ChainsPer == 3
\* total number of calls made by all threads (SpecPanic)
MaxPanicOps == 3
\* total number of calls made by threads that hold no Entry or guard (SpecReentrant)
MaxReOps == 2
\* keys inserted by each thread in the concurrent_inserts workload
PerThread == 3

\* the key "counter" of tests::concurrent_entry_updates
CounterKey == 1
\* the gets tests::concurrent_inserts makes after joining its threads
FinalGets == 2

Threads == 1..NThreads
Keys == 1..NKeys
InVals == 1..MaxIn

(* Option<V>: None is the empty tuple, Some(v) the one-element tuple.      *)
None == << >>
Some(v) == << v >>
IsSome(o) == Len(o) = 1
Unwrap(o) == o[1]
(* Ghost predictions about a key k, made when a call acquires the lock:     *)
(*   Never          no insert, remove or entry chain has touched k          *)
(*   Ins(v, r)      the last one to touch k was insert(k, v); r: another    *)
(*                  insert of a different value to k was in flight when an  *)
(*                  earlier insert acquired the lock (the two raced)        *)
(*   Removed(h)     the last one was remove(k); h: an insert preceded it    *)
(*   Unknown        the last one was an entry chain: no prediction          *)
Never == << "never" >>
Ins(v, r) == << "ins", v, r >>
Removed(h) == << "removed", h >>
Unknown == << "unknown" >>

(* The caller-supplied closures of and_modify: |v| *v += 1 (lib.rs:259)    *)
(* and |v| *v += 5 (lib.rs:207).                                           *)
Closures == {"inc", "add5"}
ApplyClosure(f, v) == IF f = "inc" THEN v + 1 ELSE v + 5

(* The caller-supplied producer of or_insert_with: || 42 (lib.rs:217).     *)
Producers == {"p42"}
Produce(p) == 42

VARIABLES
    store,      \* HashMap<K, V> inside the RwLock: Keys -> Option<V>
    writers,    \* threads holding an RwLockWriteGuard / MappedRwLockWriteGuard
    pending,    \* the writer that has claimed the lock and waits for the readers to leave
    readers,    \* threads holding an RwLockReadGuard
    pc,         \* position of each thread
    op,         \* the call each thread is in (or made last): kind, key, val
    entry,      \* variant of the Entry a thread holds: "Occupied" / "Vacant" / "none"
    ret,        \* value returned by the thread's last get / remove
    nmod,       \* and_modify calls made on the thread's current Entry
    fcalls,     \* ghost: invocations of the and_modify closure in the current chain
    pcalls,     \* ghost: invocations of the or_insert_with producer in the current chain
    nops,       \* calls made by all threads together
    done,       \* chains started by each thread (concurrent_entry_updates workload)
    seqMap,     \* ghost: a sequential map executing the operations in lock-acquisition order
    absRet,     \* ghost: what the sequential map returns for the thread's get / remove
    lastW,      \* ghost: per key, the outcome the last insert / remove to acquire the lock predicts
    expect      \* ghost: per thread, the value a get is bound to return (or Unknown)

vars == << store, writers, pending, readers, pc, op, entry, ret, nmod, fcalls, pcalls, nops, done,
           seqMap, absRet, lastW, expect >>

counts == << nops, done >>

ghosts == << seqMap, absRet, lastW, expect >>

(* ------------------------- HashMap operations --------------------------- *)
\* mutant: insert that keeps the value already stored
MapInsertIfAbsent(m, k, v) == IF Len(m[k]) = 1 THEN m ELSE [m EXCEPT ![k] = << v >>]
\* mutant: insert that drops every other key of the map
MapInsertAlone(m, k, v) == [j \in DOMAIN m |-> IF j = k THEN << v >> ELSE << >>]
MapInsert(m, k, v) == [m EXCEPT ![k] = Some(v)]
\* mutant: remove that looks the value up and leaves it in the map
MapRemoveKeeps(m, k) == m
\* mutant: remove that empties the map
MapRemoveClears(m, k) == [j \in DOMAIN m |-> << >>]
MapRemove(m, k) == [m EXCEPT ![k] = None]
MapGet(m, k) == m[k]
ContainsKey(m, k) == IsSome(m[k])

(* ----------- the sequential map the container is compared with ---------- *)
SeqInsert(m, k, v) == [j \in DOMAIN m |-> IF j = k THEN << v >> ELSE m[j]]
SeqRemove(m, k) == [j \in DOMAIN m |-> IF j = k THEN << >> ELSE m[j]]
SeqGet(m, k) == m[k]
\* entry(k).and_modify(f)
SeqAndModify(m, k, f) ==
    IF m[k] # << >> THEN SeqInsert(m, k, ApplyClosure(f, m[k][1])) ELSE m
\* entry(k).or_insert(d)
SeqOrInsert(m, k, d) == IF m[k] # << >> THEN m ELSE SeqInsert(m, k, d)

(* ------------------------ parking_lot::RwLock --------------------------- *)
(* The lock is held by the threads in writers (exclusive) and readers       *)
(* (shared).  A writer that finds only readers in the lock claims it (it    *)
(* sets the writer bit, pending) and then waits for the readers to leave;   *)
(* read() does not pass a set writer bit.  Which of several blocked threads *)
(* acquires next is left open.                                              *)
\* mutants: write() that overlooks a current writer / the current readers
CanWriteIgnoresWriters == readers = {}
CanWriteIgnoresReaders == writers = {}
\* write() returns once neither a writer nor a reader holds the lock
CanWrite == writers = {} /\ readers = {}
\* mutant: read() that does not wait for the writer
CanReadAlways == TRUE
\* mutant: read() that overtakes a writer waiting for the readers to leave
CanReadIgnoresPending == writers = {}
\* read() returns once no writer holds the lock or has claimed it
CanRead == writers = {} /\ pending = {}

\* the driver of Spec: at most MaxOps calls are made
Budget == nops < MaxOps /\ nops' = nops + 1 /\ UNCHANGED done

NoOp == [kind |-> "none", key |-> 1, val |-> 0, race |-> FALSE]

\* CarbonMap::new() over the key universe K, and threads T that have made no call
InitOver(K, T) ==
    /\ store = [k \in K |-> None]
    /\ writers = {}
    /\ pending = {}
    /\ readers = {}
    /\ pc = [t \in T |-> "idle"]
    /\ op = [t \in T |-> NoOp]
    /\ entry = [t \in T |-> "none"]
    /\ ret = [t \in T |-> None]
    /\ nmod = [t \in T |-> 0]
    /\ fcalls = [t \in T |-> 0]
    /\ pcalls = [t \in T |-> 0]
    /\ nops = 0
    /\ done = [t \in T |-> 0]
    /\ seqMap = [k \in K |-> None]
    /\ absRet = [t \in T |-> None]
    /\ lastW = [k \in K |-> Never]
    /\ expect = [t \in T |-> Unknown]

Init == InitOver(Keys, Threads)

\* a write to key k acquired the lock: gets of k still waiting lose their prediction
ClearExpect(k) ==
    [u \in DOMAIN pc |->
        IF pc[u] = "get_wait" /\ op[u].key = k THEN Unknown ELSE expect[u]]

\* insert(k, v) of thread t acquired the lock: the inserts of another value to k
\* that are still waiting have raced with it
MarkRace(t) ==
    [u \in DOMAIN pc |->
        IF /\ u # t
           /\ pc[u] = "insert_wait"
           /\ op[u].key = op[t].key
           /\ op[u].val # op[t].val
        THEN [op[u] EXCEPT !.race = TRUE]
        ELSE op[u]]

(* --------------------------- waiting writers ---------------------------- *)
\* write() of thread t finds the lock held by readers only: it takes the writer
\* bit and goes on waiting for the readers to leave
WriteClaim(t) ==
    /\ pc[t] \in {"insert_wait", "remove_wait", "entry_wait"}
    /\ writers = {} /\ pending = {} /\ readers # {}
    /\ pending' = {t}
    /\ UNCHANGED << store, writers, readers, pc, op, entry, ret, nmod, fcalls, pcalls,
                    counts, ghosts >>

(* ------------------------------ insert ---------------------------------- *)
InsertCall(t, k, v) ==
    /\ pc[t] = "idle"
    /\ pc' = [pc EXCEPT ![t] = "insert_wait"]
    /\ op' = [op EXCEPT ![t] = [kind |-> "insert", key |-> k, val |-> v, race |-> FALSE]]
    /\ UNCHANGED << store, writers, pending, readers, entry, ret, nmod, fcalls, pcalls, ghosts >>

\* let mut map = self.inner.write();
InsertAcquire(t) ==
    /\ pc[t] = "insert_wait"
    /\ CanWrite
    /\ pending \subseteq {t}
    /\ writers' = writers \cup {t}
    /\ pending' = {}
    /\ pc' = [pc EXCEPT ![t] = "insert_locked"]
    /\ seqMap' = SeqInsert(seqMap, op[t].key, op[t].val)
    /\ lastW' = [lastW EXCEPT ![op[t].key] = Ins(op[t].val, op[t].race)]
    /\ expect' = ClearExpect(op[t].key)
    /\ op' = MarkRace(t)
    /\ UNCHANGED << store, readers, entry, ret, nmod, fcalls, pcalls, counts, absRet >>

\* map.insert(key, val); the guard `map` is dropped as insert returns
InsertBody(t) ==
    /\ pc[t] = "insert_locked"
    /\ store' = MapInsert(store, op[t].key, op[t].val)
    /\ writers' = writers \ {t}
    /\ UNCHANGED pending
    /\ pc' = [pc EXCEPT ![t] = "idle"]
    /\ op' = [op EXCEPT ![t] = NoOp]
    /\ UNCHANGED << readers, entry, ret, nmod, fcalls, pcalls, counts, ghosts >>

(* -------------------------------- get ----------------------------------- *)
\* no thread holding exclusive access is operating on key k
NoWriterOn(k) == \A u \in DOMAIN pc : u \in writers => op[u].key # k

GetCall(t, k) ==
    /\ pc[t] = "idle"
    /\ pc' = [pc EXCEPT ![t] = "get_wait"]
    /\ op' = [op EXCEPT ![t] = [kind |-> "get", key |-> k, val |-> 0, race |-> FALSE]]
    /\ expect' = [expect EXCEPT ![t] = IF NoWriterOn(k) THEN lastW[k] ELSE Unknown]
    /\ UNCHANGED << store, writers, pending, readers, entry, ret, nmod, fcalls, pcalls,
                    seqMap, absRet, lastW >>

\* let map = self.inner.read();
GetAcquire(t) ==
    /\ pc[t] = "get_wait"
    /\ CanRead
    /\ readers' = readers \cup {t}
    /\ pc' = [pc EXCEPT ![t] = "get_locked"]
    /\ absRet' = [absRet EXCEPT ![t] = SeqGet(seqMap, op[t].key)]
    /\ UNCHANGED << store, writers, pending, op, entry, ret, nmod, fcalls, pcalls, counts,
                    seqMap, lastW, expect >>

\* map.get(key).cloned()
GetBody(t) ==
    /\ pc[t] = "get_locked"
    /\ ret' = [ret EXCEPT ![t] = MapGet(store, op[t].key)]
    /\ pc' = [pc EXCEPT ![t] = "get_ret"]
    /\ UNCHANGED << store, writers, pending, readers, op, entry, nmod, fcalls, pcalls, counts, ghosts >>

\* mutant: get hands the clone out while its read guard stays locked
GetReturnKeepsLock(t) ==
    /\ pc[t] = "get_ret"
    /\ pc' = [pc EXCEPT ![t] = "idle"]
    /\ op' = [op EXCEPT ![t] = NoOp]
    /\ ret' = [ret EXCEPT ![t] = None]
    /\ absRet' = [absRet EXCEPT ![t] = None]
    /\ expect' = [expect EXCEPT ![t] = Unknown]
    /\ UNCHANGED << store, writers, pending, readers, entry, nmod, fcalls, pcalls, counts,
                    seqMap, lastW >>

\* the guard `map` is dropped at the end of get; the clone goes to the caller
GetReturn(t) ==
    /\ pc[t] = "get_ret"
    /\ readers' = readers \ {t}
    /\ pc' = [pc EXCEPT ![t] = "idle"]
    /\ op' = [op EXCEPT ![t] = NoOp]
    /\ ret' = [ret EXCEPT ![t] = None]
    /\ absRet' = [absRet EXCEPT ![t] = None]
    /\ expect' = [expect EXCEPT ![t] = Unknown]
    /\ UNCHANGED << store, writers, pending, entry, nmod, fcalls, pcalls, counts, seqMap, lastW >>

(* ------------------------------- remove --------------------------------- *)
RemoveCall(t, k) ==
    /\ pc[t] = "idle"
    /\ pc' = [pc EXCEPT ![t] = "remove_wait"]
    /\ op' = [op EXCEPT ![t] = [kind |-> "remove", key |-> k, val |-> 0, race |-> FALSE]]
    /\ UNCHANGED << store, writers, pending, readers, entry, ret, nmod, fcalls, pcalls, ghosts >>

\* let mut map = self.inner.write();
RemoveAcquire(t) ==
    /\ pc[t] = "remove_wait"
    /\ CanWrite
    /\ pending \subseteq {t}
    /\ writers' = writers \cup {t}
    /\ pending' = {}
    /\ pc' = [pc EXCEPT ![t] = "remove_locked"]
    /\ absRet' = [absRet EXCEPT ![t] = SeqGet(seqMap, op[t].key)]
    /\ seqMap' = SeqRemove(seqMap, op[t].key)
    /\ lastW' = [lastW EXCEPT ![op[t].key] = Removed(lastW[op[t].key][1] = "ins")]
    /\ expect' = ClearExpect(op[t].key)
    /\ UNCHANGED << store, readers, op, entry, ret, nmod, fcalls, pcalls, counts >>

\* map.remove(key)
RemoveBody(t) ==
    /\ pc[t] = "remove_locked"
    /\ ret' = [ret EXCEPT ![t] = MapGet(store, op[t].key)]
    /\ store' = MapRemove(store, op[t].key)
    /\ pc' = [pc EXCEPT ![t] = "remove_ret"]
    /\ UNCHANGED << writers, pending, readers, op, entry, nmod, fcalls, pcalls, counts, ghosts >>

\* the guard `map` is dropped at the end of remove; the value goes to the caller
RemoveReturn(t) ==
    /\ pc[t] = "remove_ret"
    /\ writers' = writers \ {t}
    /\ UNCHANGED pending
    /\ pc' = [pc EXCEPT ![t] = "idle"]
    /\ op' = [op EXCEPT ![t] = NoOp]
    /\ ret' = [ret EXCEPT ![t] = None]
    /\ absRet' = [absRet EXCEPT ![t] = None]
    /\ UNCHANGED << store, readers, entry, nmod, fcalls, pcalls, counts, seqMap, lastW, expect >>

(* -------------------------------- entry --------------------------------- *)
EntryCall(t, k) ==
    /\ pc[t] = "idle"
    /\ pc' = [pc EXCEPT ![t] = "entry_wait"]
    /\ op' = [op EXCEPT ![t] = [kind |-> "entry", key |-> k, val |-> 0, race |-> FALSE]]
    /\ UNCHANGED << store, writers, pending, readers, entry, ret, nmod, fcalls, pcalls, ghosts >>

\* mutants: entry() without the presence check
ClassifyAlwaysVacant(m, k) == "Vacant"
ClassifyAlwaysOccupied(m, k) == "Occupied"
\* if guard.contains_key(&key) { Occupied } else { Vacant }
Classify(m, k) == IF ContainsKey(m, k) THEN "Occupied" ELSE "Vacant"

\* mutant: the presence check is made under the lock, which is then released
\* instead of being moved into the Entry
EntryAcquireUnlocked(t) ==
    /\ pc[t] = "entry_wait"
    /\ CanWrite
    /\ entry' = [entry EXCEPT ![t] = Classify(store, op[t].key)]
    /\ pc' = [pc EXCEPT ![t] = "entry"]
    /\ lastW' = [lastW EXCEPT ![op[t].key] = Unknown]
    /\ expect' = ClearExpect(op[t].key)
    /\ UNCHANGED << store, writers, pending, readers, op, ret, nmod, fcalls, pcalls, counts,
                    seqMap, absRet >>

\* mutant: entry() reserves a slot for a missing key when it makes the Entry
EntryAcquireReserves(t) ==
    /\ pc[t] = "entry_wait"
    /\ CanWrite
    /\ pending \subseteq {t}
    /\ writers' = writers \cup {t}
    /\ pending' = {}
    /\ entry' = [entry EXCEPT ![t] = Classify(store, op[t].key)]
    /\ store' = IF ContainsKey(store, op[t].key) THEN store
                 ELSE [store EXCEPT ![op[t].key] = << 0 >>]
    /\ pc' = [pc EXCEPT ![t] = "entry"]
    /\ lastW' = [lastW EXCEPT ![op[t].key] = Unknown]
    /\ expect' = ClearExpect(op[t].key)
    /\ UNCHANGED << readers, op, ret, nmod, fcalls, pcalls, counts, seqMap, absRet >>

\* let guard = self.inner.write(); then the presence check; the Entry owns the guard
EntryAcquire(t) ==
    /\ pc[t] = "entry_wait"
    /\ CanWrite
    /\ pending \subseteq {t}
    /\ writers' = writers \cup {t}
    /\ pending' = {}
    /\ entry' = [entry EXCEPT ![t] = Classify(store, op[t].key)]
    /\ pc' = [pc EXCEPT ![t] = "entry"]
    /\ lastW' = [lastW EXCEPT ![op[t].key] = Unknown]
    /\ expect' = ClearExpect(op[t].key)
    /\ UNCHANGED << store, readers, op, ret, nmod, fcalls, pcalls, counts, seqMap, absRet >>

\* mutant: an unwind that leaves the exclusive lock held by the dead chain
PanicKeepsLock(t) ==
    /\ pc' = [pc EXCEPT ![t] = "panicked"]
    /\ writers' = writers
    /\ UNCHANGED pending
    /\ entry' = [entry EXCEPT ![t] = "none"]
    /\ nmod' = [nmod EXCEPT ![t] = 0]
    /\ fcalls' = [fcalls EXCEPT ![t] = 0]
    /\ pcalls' = [pcalls EXCEPT ![t] = 0]

\* a panic inside the chain (a failed unwrap(), a panicking closure): the unwind
\* drops the Entry and with it the RwLockWriteGuard; the lock has no poison state
Panic(t) ==
    /\ pc' = [pc EXCEPT ![t] = "panicked"]
    /\ writers' = writers \ {t}
    /\ UNCHANGED pending
    /\ entry' = [entry EXCEPT ![t] = "none"]
    /\ nmod' = [nmod EXCEPT ![t] = 0]
    /\ fcalls' = [fcalls EXCEPT ![t] = 0]
    /\ pcalls' = [pcalls EXCEPT ![t] = 0]

\* Entry::and_modify: Occupied(mut e) => { f(e.get_mut()); Occupied(e) }, e => e
AndModify(t, f) ==
    /\ pc[t] = "entry"
    /\ nmod[t] < MaxMods
    /\ op' = [op EXCEPT ![t].kind = "and_modify"]
    /\ seqMap' = SeqAndModify(seqMap, op[t].key, f)
    /\ IF entry[t] = "Occupied"
       THEN IF ContainsKey(store, op[t].key)
            THEN /\ store' = [store EXCEPT ![op[t].key] =
                                 Some(ApplyClosure(f, Unwrap(store[op[t].key])))]
                 /\ fcalls' = [fcalls EXCEPT ![t] = @ + 1]
                 /\ nmod' = [nmod EXCEPT ![t] = @ + 1]
                 /\ UNCHANGED << pc, writers, pending, entry, pcalls >>
            ELSE /\ Panic(t)
                 /\ UNCHANGED store
       ELSE /\ nmod' = [nmod EXCEPT ![t] = @ + 1]
            /\ UNCHANGED << store, fcalls, pcalls, pc, writers, pending, entry >>
    /\ UNCHANGED << readers, ret, counts, absRet, lastW, expect >>

\* match self { Occupied(e) => e.into_guard(), Vacant(e) => e.insert(d) }
\* evalOcc / evalVac: how many times the arm evaluates the producer of d
Terminal(t, term, d, evalOcc, evalVac) ==
    /\ pc[t] = "entry"
    /\ op' = [op EXCEPT ![t].kind = term, ![t].val = d]
    /\ seqMap' = SeqOrInsert(seqMap, op[t].key, d)
    /\ IF entry[t] = "Occupied"
       THEN IF ContainsKey(store, op[t].key)
            THEN /\ pc' = [pc EXCEPT ![t] = "guard"]
                 /\ entry' = [entry EXCEPT ![t] = "none"]
                 /\ pcalls' = [pcalls EXCEPT ![t] = @ + evalOcc]
                 /\ UNCHANGED << store, writers, pending, nmod, fcalls >>
            ELSE /\ Panic(t)
                 /\ UNCHANGED store
       ELSE /\ store' = MapInsert(store, op[t].key, d)
            /\ pc' = [pc EXCEPT ![t] = "guard"]
            /\ entry' = [entry EXCEPT ![t] = "none"]
            /\ pcalls' = [pcalls EXCEPT ![t] = @ + evalVac]
            /\ UNCHANGED << writers, pending, nmod, fcalls >>
    /\ UNCHANGED << readers, ret, counts, absRet, lastW, expect >>

\* Entry::or_insert: the default is a value, no producer is involved
OrInsert(t, d) == Terminal(t, "or_insert", d, 0, 0)

\* mutant: the producer is evaluated before the match, as in or_insert(f())
OrInsertWithEager(t, p) == Terminal(t, "or_insert_with", Produce(p), 1, 1)

\* Entry::or_insert_with: Occupied(e) => e.into_guard(), Vacant(e) => e.insert(f())
OrInsertWith(t, p) == Terminal(t, "or_insert_with", Produce(p), 0, 1)

\* the value a MappedRwLockWriteGuard dereferences to
GuardView(t) == store[op[t].key]

\* *e.get_mut() = v on the OccupiedEntry e of a matched Entry::Occupied(e):
\* self.guard.get_mut(&self.key).unwrap() is a reference into the store
GetMutWrite(t, v) ==
    /\ pc[t] = "entry"
    /\ entry[t] = "Occupied"
    /\ IF ContainsKey(store, op[t].key)
       THEN /\ store' = [store EXCEPT ![op[t].key] = Some(v)]
            /\ seqMap' = SeqInsert(seqMap, op[t].key, v)
            /\ UNCHANGED << pc, writers, pending, entry, nmod, fcalls, pcalls >>
       ELSE /\ Panic(t)
            /\ UNCHANGED << store, seqMap >>
    /\ UNCHANGED << readers, op, ret, counts, absRet, lastW, expect >>

\* *g = v through the MappedRwLockWriteGuard g that or_insert, or_insert_with
\* or VacantEntry::insert returned: g is a reference into the store
GuardWrite(t, v) ==
    /\ pc[t] = "guard"
    /\ store' = [store EXCEPT ![op[t].key] = Some(v)]
    /\ seqMap' = SeqInsert(seqMap, op[t].key, v)
    /\ UNCHANGED << writers, pending, readers, pc, op, entry, ret, nmod, fcalls, pcalls,
                    counts, absRet, lastW, expect >>

\* mutant: the Entry is forgotten, its RwLockWriteGuard never unlocks
DropEntryKeepsLock(t) ==
    /\ pc[t] = "entry"
    /\ entry' = [entry EXCEPT ![t] = "none"]
    /\ pc' = [pc EXCEPT ![t] = "idle"]
    /\ op' = [op EXCEPT ![t] = NoOp]
    /\ nmod' = [nmod EXCEPT ![t] = 0]
    /\ fcalls' = [fcalls EXCEPT ![t] = 0]
    /\ pcalls' = [pcalls EXCEPT ![t] = 0]
    /\ UNCHANGED << store, writers, pending, readers, ret, counts, ghosts >>

\* the Entry is dropped without a terminal operation
DropEntry(t) ==
    /\ pc[t] = "entry"
    /\ writers' = writers \ {t}
    /\ UNCHANGED pending
    /\ entry' = [entry EXCEPT ![t] = "none"]
    /\ pc' = [pc EXCEPT ![t] = "idle"]
    /\ op' = [op EXCEPT ![t] = NoOp]
    /\ nmod' = [nmod EXCEPT ![t] = 0]
    /\ fcalls' = [fcalls EXCEPT ![t] = 0]
    /\ pcalls' = [pcalls EXCEPT ![t] = 0]
    /\ UNCHANGED << store, readers, ret, counts, ghosts >>

\* the mapped guard is dropped
DropGuard(t) ==
    /\ pc[t] = "guard"
    /\ writers' = writers \ {t}
    /\ UNCHANGED pending
    /\ pc' = [pc EXCEPT ![t] = "idle"]
    /\ op' = [op EXCEPT ![t] = NoOp]
    /\ nmod' = [nmod EXCEPT ![t] = 0]
    /\ fcalls' = [fcalls EXCEPT ![t] = 0]
    /\ pcalls' = [pcalls EXCEPT ![t] = 0]
    /\ UNCHANGED << store, readers, entry, ret, counts, ghosts >>

Next ==
    \E t \in Threads :
        \/ \E k \in Keys, v \in InVals : Budget /\ InsertCall(t, k, v)
        \/ WriteClaim(t)
        \/ InsertAcquire(t)
        \/ InsertBody(t)
        \/ \E k \in Keys : Budget /\ GetCall(t, k)
        \/ GetAcquire(t)
        \/ GetBody(t)
        \/ GetReturn(t)
        \/ \E k \in Keys : Budget /\ RemoveCall(t, k)
        \/ RemoveAcquire(t)
        \/ RemoveBody(t)
        \/ RemoveReturn(t)
        \/ \E k \in Keys : Budget /\ EntryCall(t, k)
        \/ EntryAcquire(t)
        \/ \E f \in Closures : AndModify(t, f)
        \/ \E d \in InVals : OrInsert(t, d)
        \/ \E p \in Producers : OrInsertWith(t, p)
        \/ DropEntry(t)
        \/ \E v \in InVals : GetMutWrite(t, v)
        \/ \E v \in InVals : GuardWrite(t, v)
        \/ DropGuard(t)

Spec == Init /\ [][Next]_vars

(* ------------- insert / get / remove alone, one call deeper -------------- *)
BudgetMap == nops < MaxMapOps /\ nops' = nops + 1 /\ UNCHANGED done

NextMap ==
    \E t \in Threads :
        \/ \E k \in Keys, v \in InVals : BudgetMap /\ InsertCall(t, k, v)
        \/ WriteClaim(t)
        \/ InsertAcquire(t)
        \/ InsertBody(t)
        \/ \E k \in Keys : BudgetMap /\ GetCall(t, k)
        \/ GetAcquire(t)
        \/ GetBody(t)
        \/ GetReturn(t)
        \/ \E k \in Keys : BudgetMap /\ RemoveCall(t, k)
        \/ RemoveAcquire(t)
        \/ RemoveBody(t)
        \/ RemoveReturn(t)

SpecMap == Init /\ [][NextMap]_vars


(* ---------------- tests::concurrent_entry_updates workload -------------- *)
\* every spawned thread has run its ChainsPer chains and been joined
AllJoined == \A t \in Threads : done[t] = ChainsPer /\ pc[t] = "idle"

\* for _ in 0..K { let _ = m.entry("counter").and_modify(|v| *v += 1).or_insert(1); }
ChainCall(t) ==
    /\ done[t] < ChainsPer
    /\ done' = [done EXCEPT ![t] = @ + 1]
    /\ UNCHANGED nops
    /\ EntryCall(t, CounterKey)

\* let val = map.get(&"counter"); after every handle is joined
FinalGetCall(t) ==
    /\ AllJoined
    /\ nops = 0
    /\ nops' = 1
    /\ UNCHANGED done
    /\ GetCall(t, CounterKey)

NextCounter ==
    \E t \in Threads :
        \/ ChainCall(t)
        \/ EntryAcquire(t)
        \/ nmod[t] = 0 /\ AndModify(t, "inc")
        \/ nmod[t] = 1 /\ OrInsert(t, 1)
        \/ DropGuard(t)
        \/ FinalGetCall(t)
        \/ GetAcquire(t)
        \/ GetBody(t)
        \/ GetReturn(t)

SpecCounter == Init /\ [][NextCounter]_vars


(* ------------------------- panicking closures --------------------------- *)
\* closures |v| that panic, at once or after writing through the &mut V
PanicClosures == {"boom", "inc_boom"}
ApplyBeforePanic(f, v) == IF f = "inc_boom" THEN v + 1 ELSE v

\* and_modify(f) with a panicking f: Occupied(mut e) => { f(e.get_mut()); .. }
\* unwinds out of f; e => e does not call f
AndModifyPanics(t, f) ==
    /\ pc[t] = "entry"
    /\ nmod[t] < MaxMods
    /\ op' = [op EXCEPT ![t].kind = "and_modify"]
    /\ IF entry[t] = "Occupied"
       THEN /\ store' = IF ContainsKey(store, op[t].key)
                        THEN [store EXCEPT ![op[t].key] =
                                 Some(ApplyBeforePanic(f, Unwrap(store[op[t].key])))]
                        ELSE store
            /\ seqMap' = store'
            /\ Panic(t)
       ELSE /\ nmod' = [nmod EXCEPT ![t] = @ + 1]
            /\ UNCHANGED << store, seqMap, fcalls, pcalls, pc, writers, pending, entry >>
    /\ UNCHANGED << readers, ret, counts, absRet, lastW, expect >>

\* or_insert_with(f) with a panicking f: Vacant(e) => e.insert(f()) unwinds out
\* of f before anything is inserted; Occupied(e) => e.into_guard() does not call f
OrInsertWithPanics(t) ==
    /\ pc[t] = "entry"
    /\ op' = [op EXCEPT ![t].kind = "or_insert_with"]
    /\ IF entry[t] = "Occupied"
       THEN IF ContainsKey(store, op[t].key)
            THEN /\ pc' = [pc EXCEPT ![t] = "guard"]
                 /\ entry' = [entry EXCEPT ![t] = "none"]
                 /\ UNCHANGED << writers, pending, nmod, fcalls, pcalls >>
            ELSE Panic(t)
       ELSE Panic(t)
    /\ UNCHANGED << store, seqMap, readers, ret, counts, absRet, lastW, expect >>

BudgetPanic == nops < MaxPanicOps /\ nops' = nops + 1 /\ UNCHANGED done

NextPanic ==
    \E t \in Threads :
        \/ \E k \in Keys, v \in InVals : BudgetPanic /\ InsertCall(t, k, v)
        \/ WriteClaim(t)
        \/ InsertAcquire(t)
        \/ InsertBody(t)
        \/ \E k \in Keys : BudgetPanic /\ GetCall(t, k)
        \/ GetAcquire(t)
        \/ GetBody(t)
        \/ GetReturn(t)
        \/ \E k \in Keys : BudgetPanic /\ RemoveCall(t, k)
        \/ RemoveAcquire(t)
        \/ RemoveBody(t)
        \/ RemoveReturn(t)
        \/ \E k \in Keys : BudgetPanic /\ EntryCall(t, k)
        \/ EntryAcquire(t)
        \/ \E f \in PanicClosures : AndModifyPanics(t, f)
        \/ OrInsertWithPanics(t)
        \/ \E v \in InVals : GetMutWrite(t, v)
        \/ DropEntry(t)
        \/ \E v \in InVals : GuardWrite(t, v)
        \/ DropGuard(t)

SpecPanic == Init /\ [][NextPanic]_vars


(* ------------- calls made while an Entry or a guard is held -------------- *)
CallKinds == {"insert", "get", "remove", "entry"}
WaitOf(kind) ==
    CASE kind = "insert" -> "insert_wait"
      [] kind = "get" -> "get_wait"
      [] kind = "remove" -> "remove_wait"
      [] kind = "entry" -> "entry_wait"

\* thread t still owns its Entry or mapped guard (and so the exclusive lock) and
\* calls insert, get, remove or entry on the same container
ReentrantCall(t, kind, k) ==
    /\ pc[t] \in {"entry", "guard"}
    /\ pc' = [pc EXCEPT ![t] = WaitOf(kind)]
    /\ op' = [op EXCEPT ![t] = [kind |-> kind, key |-> k,
                                val |-> IF kind = "insert" THEN 1 ELSE 0,
                                race |-> FALSE]]
    /\ UNCHANGED << store, writers, pending, readers, entry, ret, nmod, fcalls, pcalls,
                    ghosts >>

BudgetRe == nops < MaxReOps /\ nops' = nops + 1 /\ UNCHANGED done

NextReentrant ==
    \E t \in Threads :
        \/ \E k \in Keys, v \in InVals : BudgetRe /\ InsertCall(t, k, v)
        \/ WriteClaim(t)
        \/ InsertAcquire(t)
        \/ InsertBody(t)
        \/ \E k \in Keys : BudgetRe /\ GetCall(t, k)
        \/ GetAcquire(t)
        \/ GetBody(t)
        \/ GetReturn(t)
        \/ \E k \in Keys : BudgetRe /\ RemoveCall(t, k)
        \/ RemoveAcquire(t)
        \/ RemoveBody(t)
        \/ RemoveReturn(t)
        \/ \E k \in Keys : BudgetRe /\ EntryCall(t, k)
        \/ EntryAcquire(t)
        \/ \E d \in InVals : OrInsert(t, d)
        \/ DropEntry(t)
        \/ \E v \in InVals : GetMutWrite(t, v)
        \/ \E v \in InVals : GuardWrite(t, v)
        \/ DropGuard(t)
        \/ \E kind \in CallKinds, k \in Keys : UNCHANGED counts /\ ReentrantCall(t, kind, k)

SpecReentrant == Init /\ [][NextReentrant]_vars


(* ------------- threads that never stop calling, on a fair lock ---------- *)
\* every thread calls insert, get, remove and entry().or_insert again and again
\* on the key "counter", and never calls while it holds an Entry or a guard
NextLive ==
    \E t \in Threads :
        \/ UNCHANGED counts /\ InsertCall(t, CounterKey, 1)
        \/ WriteClaim(t)
        \/ InsertAcquire(t)
        \/ InsertBody(t)
        \/ UNCHANGED counts /\ GetCall(t, CounterKey)
        \/ GetAcquire(t)
        \/ GetBody(t)
        \/ GetReturn(t)
        \/ UNCHANGED counts /\ RemoveCall(t, CounterKey)
        \/ RemoveAcquire(t)
        \/ RemoveBody(t)
        \/ RemoveReturn(t)
        \/ UNCHANGED counts /\ EntryCall(t, CounterKey)
        \/ EntryAcquire(t)
        \/ OrInsert(t, 1)
        \/ DropEntry(t)
        \/ \E v \in InVals : GetMutWrite(t, v)
        \/ \E v \in InVals : GuardWrite(t, v)
        \/ DropGuard(t)

\* what thread t does next once it has the lock, or to claim it as a writer
Proceed(t) ==
    \/ InsertBody(t)
    \/ GetBody(t)
    \/ GetReturn(t)
    \/ RemoveBody(t)
    \/ RemoveReturn(t)
    \/ OrInsert(t, 1)
    \/ DropEntry(t)
    \/ DropGuard(t)
    \/ WriteClaim(t)

\* read() / write() of thread t returning
Acquire(t) ==
    \/ InsertAcquire(t)
    \/ GetAcquire(t)
    \/ RemoveAcquire(t)
    \/ EntryAcquire(t)

\* a thread inside an operation keeps running, every Entry and guard is dropped
\* or consumed, and the lock is fair: a thread that could acquire it again and
\* again does acquire it
FairLive == \A t \in Threads : WF_vars(Proceed(t)) /\ SF_vars(Acquire(t))

SpecLive == Init /\ [][NextLive]_vars /\ FairLive


(* ------------- one more thread than Threads, contending for the lock ---- *)
\* every thread calls get, insert, remove and entry (dropping the Entry) any
\* number of times, so a waiting call meets readers, a writer holding the lock
\* and a writer waiting for it; the lock covers the whole map, so the calls use
\* one key
Contenders == 1 .. (NThreads + 1)

InitContend == InitOver(Keys, Contenders)

NextContend ==
    \E t \in Contenders :
        \/ UNCHANGED counts /\ GetCall(t, CounterKey)
        \/ UNCHANGED counts /\ InsertCall(t, CounterKey, 1)
        \/ UNCHANGED counts /\ RemoveCall(t, CounterKey)
        \/ UNCHANGED counts /\ EntryCall(t, CounterKey)
        \/ WriteClaim(t)
        \/ GetAcquire(t)
        \/ GetBody(t)
        \/ GetReturn(t)
        \/ InsertAcquire(t)
        \/ InsertBody(t)
        \/ RemoveAcquire(t)
        \/ RemoveBody(t)
        \/ RemoveReturn(t)
        \/ EntryAcquire(t)
        \/ DropEntry(t)

SpecContend == InitContend /\ [][NextContend]_vars


(* ------------------- tests::concurrent_inserts workload ----------------- *)
\* key format!("{}-{}", i, j) of thread i: the blocks of two threads are disjoint
BlockKey(i, j) == (i - 1) * PerThread + j + 1
BlockKeys == {BlockKey(i, j) : i \in Threads, j \in 0..(PerThread - 1)}

InitInserts == InitOver(BlockKeys, Threads)

\* for j in 0..D { m.insert(format!("{}-{}", i, j), j); }
BlockInsertCall(t) ==
    /\ done[t] < PerThread
    /\ done' = [done EXCEPT ![t] = @ + 1]
    /\ UNCHANGED nops
    /\ InsertCall(t, BlockKey(t, done[t]), done[t])

\* for h in handles { h.join().unwrap(); }
AllInserted == \A t \in Threads : done[t] = PerThread /\ pc[t] = "idle"

\* map.get(..) of the spawning thread after the joins
JoinedGetCall(t, k) ==
    /\ AllInserted
    /\ nops < FinalGets
    /\ nops' = nops + 1
    /\ UNCHANGED done
    /\ GetCall(t, k)

NextInserts ==
    \E t \in Threads :
        \/ BlockInsertCall(t)
        \/ InsertAcquire(t)
        \/ InsertBody(t)
        \/ \E k \in BlockKeys : JoinedGetCall(t, k)
        \/ GetAcquire(t)
        \/ GetBody(t)
        \/ GetReturn(t)

SpecInserts == InitInserts /\ [][NextInserts]_vars


(* ======================================================================== *)
(*                                 Claims                                   *)
(* ======================================================================== *)
Others(t) == Threads \ {t}

\* threads inside get, holding shared access
SharedHolders == {t \in DOMAIN pc : pc[t] \in {"get_locked", "get_ret"}}
\* threads inside insert / remove, or holding an Entry or a mapped guard
ExclHolders ==
    {t \in DOMAIN pc :
        pc[t] \in {"insert_locked", "remove_locked", "remove_ret", "entry", "guard"}}

(* C1: no lost updates.  NThreads threads each run ChainsPer chains         *)
(* entry("counter").and_modify(|v| *v += 1).or_insert(1) on the empty       *)
(* container; once all have finished the store holds NThreads * ChainsPer   *)
(* under "counter" and the get made after the joins returns exactly that.   *)
C1_NoLostUpdates ==
    /\ AllJoined => store[CounterKey] = Some(NThreads * ChainsPer)
    /\ \A t \in Threads :
          pc[t] = "get_ret" => ret[t] = Some(NThreads * ChainsPer)

C1_Witness ==
    \E t \in Threads : pc[t] = "get_ret" /\ ret[t] = Some(NThreads * ChainsPer)

(* C2: an Entry holds the exclusive lock for its whole lifetime.  While a   *)
(* thread holds an Entry it is the only lock holder; no step taken while    *)
(* the Entry is live lets another thread acquire the lock, return a result  *)
(* or change the store; and_modify keeps the lock, and consuming the Entry  *)
(* by or_insert / or_insert_with hands the same acquisition to the guard.   *)
C2_Inv ==
    \A t \in Threads : pc[t] = "entry" => writers = {t} /\ readers = {}

C2_Step ==
    \A t \in Threads :
        pc[t] = "entry" =>
            /\ \A u \in Others(t) :
                  /\ u \notin writers' /\ u \notin readers'
                  /\ ret'[u] = ret[u]
                  /\ pc'[u] # pc[u] => pc[u] = "idle"
            /\ store' # store => \A u \in Others(t) : pc'[u] = pc[u] /\ op'[u] = op[u]
            /\ pc'[t] \in {"entry", "guard"} => t \in writers'

C2_EntryHoldsLock == []C2_Inv /\ [][C2_Step]_vars

C2_Witness ==
    \E t \in Threads :
        /\ pc[t] = "entry" /\ nmod[t] = 1
        /\ \E u \in Others(t) : pc[u] \in {"insert_wait", "get_wait", "remove_wait", "entry_wait"}
                                /\ op[u].key # op[t].key

(* C3: reader-writer exclusion.  In every reachable state either no thread  *)
(* holds exclusive access (and any number are inside get), or exactly one   *)
(* thread holds exclusive access and no thread holds shared access; the     *)
(* lock's holders are exactly the threads at those positions.               *)
C3_ReaderWriterExclusion ==
    /\ \/ ExclHolders = {}
       \/ Cardinality(ExclHolders) = 1 /\ SharedHolders = {}
    /\ writers = ExclHolders
    /\ readers = SharedHolders

C3_Witness == Cardinality(SharedHolders) = NThreads /\ ExclHolders = {}

(* C4: while a mapped guard returned by or_insert / or_insert_with is held, *)
(* no other thread can acquire the lock in either mode: every pending get,  *)
(* insert, remove and entry stays blocked, on any key; the step that drops  *)
(* the guard is the one that frees the lock.                                *)
C4_Inv ==
    \A t \in Threads :
        pc[t] = "guard" =>
            /\ writers = {t} /\ readers = {}
            /\ \A u \in Others(t) :
                  /\ ~ ENABLED GetAcquire(u)
                  /\ ~ ENABLED InsertAcquire(u)
                  /\ ~ ENABLED RemoveAcquire(u)
                  /\ ~ ENABLED EntryAcquire(u)

C4_Step ==
    \A t \in Threads :
        pc[t] = "guard" =>
            /\ \A u \in Others(t) : u \notin writers' /\ u \notin readers'
            /\ IF pc'[t] = "guard" THEN t \in writers'
               ELSE writers' = {} /\ readers' = {}

C4_GuardBlocksAll == []C4_Inv /\ [][C4_Step]_vars

C4_Witness ==
    \E t \in Threads :
        /\ pc[t] = "guard"
        /\ \E u \in Others(t) : pc[u] = "get_wait" /\ op[u].key # op[t].key

(* C5: linearizable in lock-acquisition order.  seqMap is a sequential map  *)
(* that executes each operation when it acquires the lock; whenever no      *)
(* writer is inside an operation the store equals it, and every get and     *)
(* remove returns what the sequential map returned.                         *)
C5_Linearizable ==
    /\ writers = {} => store = seqMap
    /\ \A t \in Threads :
          pc[t] \in {"get_ret", "remove_ret"} => ret[t] = absRet[t]
    /\ \A t \in Threads : pc[t] \in {"entry", "guard"} => store = seqMap

C5_Witness ==
    \E t \in Threads :
        /\ pc[t] = "get_ret" /\ IsSome(ret[t]) /\ ret[t] = absRet[t]
        /\ store = seqMap


(* C6: a get(k) issued after insert(k, v) has returned, with no insert,     *)
(* remove or entry chain on k acquiring the lock in between, returns        *)
(* Some(v); a get of a key no call has ever written returns None.           *)
C6_InsertThenGet ==
    \A t \in Threads :
        pc[t] = "get_ret" =>
            /\ expect[t][1] = "ins" => ret[t] = Some(expect[t][2])
            /\ expect[t][1] = "never" => ret[t] = None

C6_Witness ==
    \E t \in Threads :
        pc[t] = "get_ret" /\ expect[t][1] = "ins" /\ ret[t] = Some(expect[t][2])

(* C7: last writer wins, no merge.  Whenever no writer is operating on k    *)
(* and the last call to acquire the lock for k was insert(k, v), the store  *)
(* holds exactly v under k and a get(k) returns Some(v), also when that     *)
(* insert raced with an insert of another value to k.                       *)
C7_LastWriterWins ==
    /\ \A k \in Keys :
          (NoWriterOn(k) /\ lastW[k][1] = "ins") => store[k] = Some(lastW[k][2])
    /\ \A t \in Threads :
          (pc[t] = "get_ret" /\ lastW[op[t].key][1] = "ins")
              => ret[t] = Some(lastW[op[t].key][2])

C7_Witness ==
    \E t \in Threads :
        /\ pc[t] = "get_ret"
        /\ lastW[op[t].key][1] = "ins"
        /\ lastW[op[t].key][3]
        /\ ret[t] = Some(lastW[op[t].key][2])

(* C8: remove(k) returns the value stored under k at that moment and        *)
(* leaves k absent and every other key as it was; on an absent key it       *)
(* returns None and leaves the whole store unchanged; a get(k) issued after *)
(* the remove, with no write to k in between, returns None.                 *)
C8_Step ==
    \A t \in Threads :
        (pc[t] = "remove_locked" /\ pc'[t] = "remove_ret") =>
            /\ ret'[t] = store[op[t].key]
            /\ store'[op[t].key] = None
            /\ \A j \in Keys \ {op[t].key} : store'[j] = store[j]
            /\ store[op[t].key] = None => (store' = store /\ ret'[t] = None)

C8_Inv ==
    \A t \in Threads :
        (pc[t] = "get_ret" /\ expect[t][1] = "removed") => ret[t] = None

C8_Remove == []C8_Inv /\ [][C8_Step]_vars

C8_Witness ==
    \E t \in Threads :
        pc[t] = "get_ret" /\ expect[t] = Removed(TRUE) /\ ret[t] = None

(* C9: entry(k).or_insert(d) on an absent key stores d under k and the      *)
(* guard views d; on a present key the store is left unchanged and the      *)
(* guard views the existing value.                                          *)
C9_Step ==
    \A t \in Threads :
        (pc[t] = "entry" /\ pc'[t] = "guard" /\ op'[t].kind = "or_insert") =>
            IF store[op[t].key] = None
            THEN /\ store'[op[t].key] = Some(op'[t].val)
                 /\ \A j \in Keys \ {op[t].key} : store'[j] = store[j]
                 /\ GuardView(t)' = Some(op'[t].val)
            ELSE /\ store' = store
                 /\ GuardView(t)' = store[op[t].key]

C9_OrInsert == [][C9_Step]_vars

C9_Witness ==
    \E t \in Threads :
        /\ pc[t] = "guard" /\ op[t].kind = "or_insert"
        /\ IsSome(GuardView(t))
        /\ GuardView(t) # Some(op[t].val)

(* C10: and_modify(f) invokes f exactly once, on the stored value in place, *)
(* when k is present, and never when k is absent (the store is then         *)
(* unchanged); either way it returns the Entry with the same variant, still *)
(* holding the lock; an or_insert chained after a modification leaves the   *)
(* modified value in the store.                                             *)
AndModifyStep(t) ==
    /\ pc[t] = "entry"
    /\ op'[t].kind = "and_modify"
    /\ nmod'[t] = nmod[t] + 1 \/ pc'[t] = "panicked"

C10_Step ==
    \A t \in Threads :
        /\ AndModifyStep(t) =>
            /\ pc'[t] = "entry" /\ t \in writers' /\ entry'[t] = entry[t]
            /\ IF store[op[t].key] # None
               THEN /\ fcalls'[t] = fcalls[t] + 1
                    /\ \E f \in Closures :
                          store'[op[t].key] = Some(ApplyClosure(f, Unwrap(store[op[t].key])))
                    /\ \A j \in Keys \ {op[t].key} : store'[j] = store[j]
               ELSE /\ fcalls'[t] = fcalls[t]
                    /\ store' = store
        /\ (pc[t] = "entry" /\ fcalls[t] > 0 /\ pc'[t] = "guard") => store' = store

C10_AndModify == [][C10_Step]_vars

C10_Witness ==
    \E t \in Threads :
        /\ pc[t] = "guard" /\ op[t].kind = "or_insert" /\ fcalls[t] = 1
        /\ GuardView(t) # Some(op[t].val)

(* ---- C11: or_insert_with evaluates its producer lazily ------------------ *)
\* a step of thread t that runs or_insert_with on its Entry
OrInsertWithStep(t) ==
    /\ pc[t] = "entry"
    /\ pc'[t] \in {"guard", "panicked"}
    /\ op'[t].kind = "or_insert_with"

C11_Step ==
    \A t \in Threads :
        OrInsertWithStep(t) =>
            LET k == op[t].key IN
            IF store[k] = None
            THEN /\ pcalls'[t] = pcalls[t] + 1
                 /\ \E p \in Producers : store'[k] = Some(Produce(p))
                 /\ pc'[t] = "guard"
                 /\ GuardView(t)' = store'[k]
                 /\ \A j \in Keys \ {k} : store'[j] = store[j]
            ELSE /\ pcalls'[t] = pcalls[t]
                 /\ store' = store
                 /\ pc'[t] = "guard"
                 /\ GuardView(t)' = store[k]

\* C11: entry(k).or_insert_with(f) calls f exactly once when k is absent, and
\* then inserts f's result and returns a guard on it; when k is present f is
\* never called, the existing value is unchanged and the guard views it.
C11_OrInsertWithLazy == [][C11_Step]_vars

\* or_insert_with has returned a guard on a present key without calling f
C11_Witness ==
    \E t \in Threads :
        /\ pc[t] = "guard"
        /\ op[t].kind = "or_insert_with"
        /\ pcalls[t] = 0
        /\ GuardView(t) # Some(op[t].val)

(* ---- C12: concurrent inserts of disjoint blocks are all visible -------- *)
\* C12: after every thread has inserted its own block of PerThread keys and
\* has been joined, each of the NThreads * PerThread keys is present with the
\* value its thread inserted, and a get of it returns that value.
C12_DisjointInsertsVisible ==
    AllInserted =>
        /\ \A i \in Threads, j \in 0..(PerThread - 1) :
               store[BlockKey(i, j)] = Some(j)
        /\ Cardinality({k \in DOMAIN store : IsSome(store[k])}) = NThreads * PerThread
        /\ \A t \in Threads :
               pc[t] = "get_ret" =>
                   \E i \in Threads, j \in 0..(PerThread - 1) :
                       op[t].key = BlockKey(i, j) /\ ret[t] = Some(j)

\* all blocks are in, and a get of the last key of the last block is returning
C12_Witness ==
    /\ \A t \in Threads : done[t] = PerThread
    /\ \E t \in Threads :
           /\ pc[t] = "get_ret"
           /\ op[t].key = BlockKey(NThreads, PerThread - 1)
           /\ IsSome(ret[t])

(* ---- C13: a panicking closure releases the lock, nothing is poisoned ---- *)
\* threads that hold the lock: inside an operation, or owning an Entry or guard
Holders == SharedHolders \cup ExclHolders

\* the step in which a closure panics inside thread t's chain
ClosurePanicStep(t) == pc[t] = "entry" /\ pc'[t] = "panicked"

C13_Step ==
    \A t \in Threads :
        ClosurePanicStep(t) =>
            /\ t \in writers
            /\ writers' = writers \ {t}
            /\ UNCHANGED pending
            /\ readers' = readers

C13_Inv ==
    /\ \A t \in Threads :
           pc[t] = "panicked" => t \notin writers \cup readers \cup pending
    /\ \A u \in Threads :
           /\ (pc[u] = "get_wait" /\ ExclHolders = {} /\ pending = {})
                  => ENABLED GetAcquire(u)
           /\ (pc[u] = "insert_wait" /\ Holders = {} /\ pending \subseteq {u})
                  => ENABLED InsertAcquire(u)
           /\ (pc[u] = "remove_wait" /\ Holders = {} /\ pending \subseteq {u})
                  => ENABLED RemoveAcquire(u)
           /\ (pc[u] = "entry_wait" /\ Holders = {} /\ pending \subseteq {u})
                  => ENABLED EntryAcquire(u)
           /\ pc[u] = "insert_locked" => ENABLED InsertBody(u)
           /\ pc[u] = "get_locked" => ENABLED GetBody(u)
           /\ pc[u] = "get_ret" => ENABLED GetReturn(u)
           /\ pc[u] = "remove_locked" => ENABLED RemoveBody(u)
           /\ pc[u] = "remove_ret" => ENABLED RemoveReturn(u)

\* C13: when the closure given to and_modify (Occupied) or or_insert_with
\* (Vacant) panics, the unwind releases the exclusive lock of the Entry, and no
\* thread that has panicked keeps the lock: every later insert, get, remove or
\* entry acquires the lock as soon as no live operation, Entry or guard holds
\* it (a get: once no writer holds or has claimed it), and then completes.
C13_PanicReleasesLock == []C13_Inv /\ [][C13_Step]_vars

\* a thread's closure has panicked on a present key and another thread has
\* since acquired the exclusive lock
C13_Witness ==
    \E t \in Threads, u \in Threads :
        /\ pc[t] = "panicked"
        /\ op[t].kind = "and_modify"
        /\ pc[u] \in {"insert_locked", "remove_locked", "entry"}

(* ---- C14: when get and the exclusive operations block ------------------- *)
\* the acquisition a waiting thread is blocked in can complete now
CanAcquireNow(t) ==
    \/ pc[t] = "get_wait" /\ ENABLED GetAcquire(t)
    \/ pc[t] = "insert_wait" /\ ENABLED InsertAcquire(t)
    \/ pc[t] = "remove_wait" /\ ENABLED RemoveAcquire(t)
    \/ pc[t] = "entry_wait" /\ ENABLED EntryAcquire(t)

\* C14 as stated: a waiting get obtains shared access exactly when no writer
\* holds the lock (so also when only readers hold it); a waiting insert, remove
\* or entry obtains exclusive access exactly when neither a reader nor a writer
\* holds it.
C14_GetBlocksOnlyOnHolder ==
    \A t \in DOMAIN pc :
        /\ pc[t] = "get_wait" => (CanAcquireNow(t) <=> ExclHolders = {})
        /\ pc[t] \in {"insert_wait", "remove_wait", "entry_wait"} =>
               (CanAcquireNow(t) <=> (ExclHolders = {} /\ SharedHolders = {}))

\* C14 amended: a waiting get obtains shared access exactly when no writer
\* holds the lock and no waiting writer has claimed it; a waiting insert, remove
\* or entry obtains exclusive access exactly when neither a reader nor another
\* writer holds it and no other writer has claimed it.
C14_GetBlocksOnWriters ==
    \A t \in DOMAIN pc :
        /\ pc[t] = "get_wait" =>
               (CanAcquireNow(t) <=> (ExclHolders = {} /\ pending = {}))
        /\ pc[t] \in {"insert_wait", "remove_wait", "entry_wait"} =>
               (CanAcquireNow(t) <=>
                   (ExclHolders = {} /\ SharedHolders = {} /\ pending \subseteq {t}))

\* nobody holds the lock and a writer t has claimed it: a get and another
\* writer are both waiting and neither can acquire
C14_Witness ==
    \E t \in Contenders, g \in Contenders, w \in Contenders :
        /\ pending = {t}
        /\ ExclHolders = {}
        /\ SharedHolders = {}
        /\ pc[g] = "get_wait"
        /\ ~CanAcquireNow(g)
        /\ w # t
        /\ pc[w] \in {"insert_wait", "remove_wait", "entry_wait"}
        /\ ~CanAcquireNow(w)
        /\ CanAcquireNow(t)

(* ---- C15: no deadlock without re-entrant use ---------------------------- *)
WaitStates == {"insert_wait", "get_wait", "remove_wait", "entry_wait"}
\* thread t is inside insert, get or remove (waiting for the lock or holding it)
InCall(t) ==
    pc[t] \in {"insert_wait", "insert_locked", "get_wait", "get_locked", "get_ret",
               "remove_wait", "remove_locked", "remove_ret"}

\* some thread that is in a call or holds an Entry or guard can take a step
SomeoneProceeds ==
    \E t \in Threads :
        \/ ENABLED InsertAcquire(t) \/ ENABLED InsertBody(t)
        \/ ENABLED GetAcquire(t) \/ ENABLED GetBody(t) \/ ENABLED GetReturn(t)
        \/ ENABLED RemoveAcquire(t) \/ ENABLED RemoveBody(t) \/ ENABLED RemoveReturn(t)
        \/ ENABLED EntryAcquire(t) \/ ENABLED DropEntry(t) \/ ENABLED DropGuard(t)

C15_NoDeadlock == (\E t \in Threads : pc[t] # "idle") => SomeoneProceeds

C15_Progress ==
    \A t \in Threads :
        /\ InCall(t) ~> (pc[t] = "idle")
        /\ (pc[t] = "entry_wait") ~> (pc[t] = "entry")

\* C15: when no thread calls into the container while it holds an Entry or a
\* guard, and every Entry and guard is eventually dropped, no reachable state
\* is deadlocked (while some thread is in a call or holds the lock, some such
\* thread can step), and on a fair lock every pending insert, get and remove
\* returns and every pending entry obtains its Entry.
C15_DeadlockFree == []C15_NoDeadlock /\ C15_Progress

\* every thread is blocked in a call behind an Entry or a guard of another thread
C15_Witness ==
    \E t \in Threads :
        /\ pc[t] \in {"entry", "guard"}
        /\ \A u \in Others(t) : pc[u] \in WaitStates

(* ---- C16: a call made while holding an Entry or guard never returns ----- *)
\* thread t waits for the lock inside a call it made while holding the lock
Reentered(t) == t \in writers /\ pc[t] \in WaitStates

C16_Inv ==
    \A t \in Threads :
        Reentered(t) =>
            \A u \in Threads : pc[u] \in WaitStates => ~CanAcquireNow(u)

C16_Step ==
    \A t \in Threads :
        Reentered(t) =>
            /\ Reentered(t)'
            /\ pc'[t] = pc[t]
            /\ entry'[t] = entry[t]
            /\ \A u \in Others(t) :
                   /\ pc[u] \in WaitStates => pc'[u] = pc[u]
                   /\ pc'[u] \in WaitStates \cup {"idle"}

\* C16: once a thread that holds an Entry or mapped guard calls get, insert,
\* remove or entry on the same container, it stays blocked in that call in every
\* later state and keeps the Entry or guard, and no waiting call of any thread,
\* made before or after, ever acquires the lock.
C16_ReentrantDeadlock == []C16_Inv /\ [][C16_Step]_vars

\* a thread is blocked in a get it made while holding its Entry or guard, and
\* another thread's call is blocked behind it
C16_Witness ==
    \E t \in Threads :
        /\ Reentered(t)
        /\ pc[t] = "get_wait"
        /\ \E u \in Others(t) : pc[u] \in WaitStates

(* ---- C17: every acquisition is released exactly once -------------------- *)
\* thread t is not inside an operation and owns no Entry and no guard
Outside(t) == pc[t] \in {"idle", "panicked"}

C17_Inv ==
    /\ \A t \in Threads :
           /\ (Outside(t) \/ pc[t] \in WaitStates) => t \notin writers \cup readers
           /\ t \in ExclHolders => (t \in writers /\ t \notin readers)
           /\ t \in SharedHolders => (t \in readers /\ t \notin writers)
    /\ (\A t \in Threads : Outside(t)) =>
           (writers = {} /\ readers = {} /\ pending = {})

C17_Step ==
    \A t \in Threads :
        \* acquired once, on entering the operation or creating the Entry
        /\ (t \notin writers /\ t \in writers') =>
               (pc[t] \in WaitStates /\ pc'[t] \in {"insert_locked", "remove_locked", "entry"})
        /\ (t \notin readers /\ t \in readers') =>
               (pc[t] = "get_wait" /\ pc'[t] = "get_locked")
        \* released once, by the return of the operation or the drop of Entry / guard
        /\ (t \in writers /\ t \notin writers') =>
               (pc[t] \in {"insert_locked", "remove_ret", "entry", "guard"} /\ Outside(t)')
        /\ (t \in readers /\ t \notin readers') =>
               (pc[t] = "get_ret" /\ Outside(t)')
        \* the chain entry -> and_modify -> or_insert -> guard keeps its one acquisition
        /\ (pc[t] = "entry" /\ pc'[t] \in {"entry", "guard"}) => t \in writers'

\* C17: a thread holds the lock exactly from its acquisition inside insert, get,
\* remove or entry until the operation returns or the Entry / mapped guard is
\* dropped: it is released once and only then, so whenever no thread is inside
\* an operation and no Entry or guard is live, the lock is free.
C17_ReleasedOnce == []C17_Inv /\ [][C17_Step]_vars

\* all calls have been made and have returned, their guards are dropped, a
\* value is stored
C17_Witness ==
    /\ \A t \in Threads : pc[t] = "idle"
    /\ nops = MaxOps
    /\ \E k \in Keys : IsSome(store[k])
    /\ writers = {} /\ readers = {}

(* ---- C18: the Entry variant agrees with the store ----------------------- *)
\* self.guard.get(&self.key) of OccupiedEntry::get / get_mut / into_guard
EntryLookup(t) == MapGet(store, op[t].key)

C18_Inv ==
    \A t \in Threads :
        /\ pc[t] = "entry" =>
               /\ entry[t] \in {"Occupied", "Vacant"}
               /\ entry[t] = "Occupied" <=> IsSome(EntryLookup(t))
        \* the mapped guard made by into_guard / VacantEntry::insert has its value
        /\ pc[t] = "guard" => IsSome(EntryLookup(t))
        \* no unwrap() has failed
        /\ pc[t] # "panicked"

C18_Step ==
    \A t \in Threads :
        (pc[t] = "entry" /\ pc'[t] = "entry") =>
            /\ entry'[t] = entry[t]
            /\ IsSome(store'[op[t].key]) <=> IsSome(store[op[t].key])

\* C18: as long as a thread owns an Entry, the variant is Occupied exactly when
\* its key is present in the store, and stays so from step to step; the lookup
\* that get, get_mut, into_guard and VacantEntry::insert unwrap always finds
\* the key, and no thread ever panics.
C18_VariantAgrees == []C18_Inv /\ [][C18_Step]_vars

\* and_modify has gone through get_mut().unwrap() on an Occupied Entry
C18_Witness ==
    \E t \in Threads :
        /\ pc[t] = "entry"
        /\ entry[t] = "Occupied"
        /\ fcalls[t] = 1
        /\ IsSome(EntryLookup(t))

(* ---- C19: an Entry dropped without a terminal operation ----------------- *)
C19_Step ==
    \A t \in Threads :
        LET k == op[t].key IN
        \* entry() makes the Entry without touching the store
        /\ (pc[t] = "entry_wait" /\ pc'[t] = "entry") => store' = store
        \* while the Entry lives and is not consumed by a terminal operation
        /\ (pc[t] = "entry" /\ pc'[t] = "entry") =>
               IF entry[t] = "Vacant"
               THEN store' = store /\ store[k] = None
               ELSE /\ \A j \in Keys \ {k} : store'[j] = store[j]
                    /\ \/ store'[k] = store[k] /\ fcalls'[t] = fcalls[t]
                       \/ /\ fcalls'[t] = fcalls[t] + 1
                          /\ \E f \in Closures :
                                 store'[k] = Some(ApplyClosure(f, Unwrap(store[k])))
        \* the drop itself
        /\ (pc[t] = "entry" /\ pc'[t] = "idle") =>
               /\ store' = store
               /\ entry[t] = "Vacant" => store'[k] = None
               /\ t \in writers
               /\ writers' = {} /\ readers' = {}

\* C19 as stated: from entry() to the drop of an Entry that no terminal
\* operation consumed, the store does not change if the Entry is Vacant (k is
\* absent after the drop), and changes only by and_modify's closure applied to
\* the value of k if it is Occupied; the drop changes nothing in the store and
\* releases the lock.
C19_DropEntry == [][C19_Step]_vars

C19_StepInPlace ==
    \A t \in Threads :
        LET k == op[t].key IN
        /\ (pc[t] = "entry_wait" /\ pc'[t] = "entry") => store' = store
        /\ (pc[t] = "entry" /\ pc'[t] = "entry") =>
               IF entry[t] = "Vacant"
               THEN store' = store /\ store[k] = None
               ELSE /\ \A j \in Keys \ {k} : store'[j] = store[j]
                    /\ IsSome(store[k]) /\ IsSome(store'[k])
                    /\ \/ store'[k] = store[k] /\ fcalls'[t] = fcalls[t]
                       \* and_modify's closure
                       \/ /\ fcalls'[t] = fcalls[t] + 1
                          /\ \E f \in Closures :
                                 store'[k] = Some(ApplyClosure(f, Unwrap(store[k])))
                       \* a write through OccupiedEntry::get_mut
                       \/ /\ fcalls'[t] = fcalls[t]
                          /\ nmod'[t] = nmod[t]
                          /\ \E v \in InVals : store'[k] = Some(v)
        /\ (pc[t] = "entry" /\ pc'[t] = "idle") =>
               /\ store' = store
               /\ entry[t] = "Vacant" => store'[k] = None
               /\ t \in writers
               /\ writers' = {} /\ readers' = {}

\* C19 amended: from entry() to the drop of an Entry that no terminal operation
\* consumed, the store does not change if the Entry is Vacant (k is absent after
\* the drop); if it is Occupied the only changes are in-place changes of k's
\* value, by and_modify's closure or by a write through OccupiedEntry::get_mut,
\* and k stays present; the drop changes nothing in the store and releases the
\* lock.
C19_DropEntryInPlace == [][C19_StepInPlace]_vars

\* an Occupied Entry about to be dropped holds a value written through get_mut
\* after and_modify ran (the closures only raise the value)
C19_WitnessInPlace ==
    \E t \in Threads :
        /\ pc[t] = "entry"
        /\ entry[t] = "Occupied"
        /\ fcalls[t] = 1
        /\ store[op[t].key] = Some(1)
        /\ ENABLED DropEntry(t)

(* ---- C20: an operation affects at most its own key ---------------------- *)
\* the keys whose stored value the step changes
Changed == {j \in Keys : store'[j] # store[j]}

C20_Step ==
    /\ \A t \in Threads :
           \* no step of a get changes the store, nor any step taken while it reads
           /\ (op[t].kind = "get" /\ pc'[t] # pc[t]) => Changed = {}
           /\ t \in SharedHolders => Changed = {}
           \* a step of insert, remove or an entry chain changes its key at most
           /\ (op[t].kind \in {"insert", "remove", "entry", "and_modify"}
                 /\ (pc'[t] # pc[t] \/ fcalls'[t] # fcalls[t]))
                  => Changed \subseteq {op[t].key}
    \* and nothing else changes the store
    /\ Changed # {} =>
           \E t \in ExclHolders :
               pc[t] \in {"insert_locked", "remove_locked", "entry", "guard"}
                   /\ Changed = {op[t].key}

\* C20: no step of get changes the store; every step of insert, of remove and
\* of an entry chain (and_modify, or_insert, or_insert_with, a write through
\* get_mut or through the mapped guard, drop) leaves every key other than the
\* operation's own unchanged; the store changes in no other way.
C20_OwnKeyOnly == [][C20_Step]_vars

\* a remove has acted on its key while another key is stored
C20_Witness ==
    \E t \in Threads :
        /\ pc[t] = "remove_ret"
        /\ \E j \in Keys \ {op[t].key} : IsSome(store[j])

====
